---- MODULE Spec2Model ----
(***************************************************************************)
(* Model of src/code/data.py: prepare_data and its two histogram helpers,  *)
(* process_activity and process_text_change.                               *)
(*                                                                         *)
(* Cells of a table are tagged values: Str(<<chars>>), Num(n) or NaN (a    *)
(* missing cell).  Strings are sequences of one-character strings so that  *)
(* str.lower() and the substring test 'Move' in x are computed.            *)
(* Floating point results are kept exact: a frequency is a fraction        *)
(* [num, den]; math.log(x) is the symbolic value Log of the exact          *)
(* argument, NaN for a NaN argument, and raises for an argument <= 0.      *)
(***************************************************************************)
EXTENDS Integers, Sequences, FiniteSets, TLC

VARIABLES df, labels, pc, keys, data, res, err, runs, first

vars == <<df, labels, pc, keys, data, res, err, runs, first>>

\* bounds of the model
MaxEvents == 3
MaxLabels == 2
MaxRuns == 2

---------------------------------------------------------------------------
\* cell values
NaN == [t |-> "nan"]
Num(n) == [t |-> "num", v |-> n]
Str(s) == [t |-> "str", v |-> s]
None == [t |-> "none"]

IsNaN(x) == x.t = "nan"

\* exact fractions
Frac(n, d) == [num |-> n, den |-> d]
FracEq(a, b) == a.num * b.den = b.num * a.den
FracAdd(a, b) == Frac(a.num * b.den + b.num * a.den, a.den * b.den)

RECURSIVE FracSum(_)
FracSum(s) == IF s = <<>> THEN Frac(0, 1) ELSE FracAdd(Head(s), FracSum(Tail(s)))

---------------------------------------------------------------------------
\* module level constants of data.py
ACTIVITY_NAMES ==
    << <<"n","o","n","p","r","o","d","u","c","t","i","o","n">>,
       <<"i","n","p","u","t">>,
       <<"r","e","m","o","v","e","/","c","u","t">>,
       <<"p","a","s","t","e">>,
       <<"r","e","p","l","a","c","e">>,
       <<"m","o","v","e">> >>

TEXT_CHANGE_NAMES ==
    << <<"a","l","p","h","a","n","u","m">>, <<"o","t","h","e","r">> >>

ACTION_TIME_COLS == <<"action_time_max_log", "action_time_mean_log", "action_time_std_log">>

\* dict(zip(NAMES, range(len(NAMES)))): the (1-based) position of a name, 0 = KeyError
IndexIn(names, name) ==
    IF \E i \in DOMAIN names : names[i] = name
    THEN CHOOSE i \in DOMAIN names : names[i] = name
    ELSE 0

ACTIVITY2IDX(name) == IndexIn(ACTIVITY_NAMES, name)
TEXT_CHANGE2IDX(name) == IndexIn(TEXT_CHANGE_NAMES, name)

---------------------------------------------------------------------------
\* str.lower() and the substring test
UpperChars == <<"A","B","C","D","E","F","G","H","I","J","K","L","M",
                "N","O","P","Q","R","S","T","U","V","W","X","Y","Z">>
LowerChars == <<"a","b","c","d","e","f","g","h","i","j","k","l","m",
                "n","o","p","q","r","s","t","u","v","w","x","y","z">>

LowerOf ==
    [c \in {UpperChars[i] : i \in DOMAIN UpperChars} |->
        LowerChars[CHOOSE i \in DOMAIN UpperChars : UpperChars[i] = c]]

LowerChar(c) == IF c \in DOMAIN LowerOf THEN LowerOf[c] ELSE c

Lower(s) == [i \in DOMAIN s |-> LowerChar(s[i])]

Contains(s, sub) ==
    \E i \in 1..(Len(s) - Len(sub) + 1) : SubSeq(s, i, i + Len(sub) - 1) = sub

\* the failure value of a helper (an exception propagating out of it)
Raise(e) == [t |-> "raise", e |-> e]
IsRaise(x) == x.t = "raise"
Ok(v) == [t |-> "ok", v |-> v]

\* value_counts() without normalize=True: the raw counts
ValueCountsRaw(s) ==
    [name \in {s[i] : i \in DOMAIN s} |->
        Frac(Cardinality({i \in DOMAIN s : s[i] = name}), 1)]

\* Series.value_counts(normalize=True): distinct value -> count / len
ValueCounts(s) ==
    [name \in {s[i] : i \in DOMAIN s} |->
        Frac(Cardinality({i \in DOMAIN s : s[i] = name}), Len(s))]

\* res = [0] * len(names); res[IDX[name]] = freq for each counted name
FillByIndex(names, counts) ==
    [i \in DOMAIN names |->
        IF names[i] \in DOMAIN counts THEN counts[names[i]] ELSE Frac(0, 1)]

\* the substring test made after lower-casing: 'move' in x.lower()
ActivityBucketLowerFirst(x) ==
    IF Contains(Lower(x.v), <<"m","o","v","e">>) THEN <<"m","o","v","e">> ELSE Lower(x.v)

\* lambda x: 'move' if 'Move' in x else x.lower()
ActivityBucket(x) ==
    IF Contains(x.v, <<"M","o","v","e">>) THEN <<"m","o","v","e">> ELSE Lower(x.v)

\* names outside the vocabulary skipped instead of looked up
process_activity_skip(series) ==
    IF \E i \in DOMAIN series : series[i].t # "str"
    THEN Raise("TypeError")
    ELSE LET activity == [i \in DOMAIN series |-> ActivityBucket(series[i])]
         IN  Ok(FillByIndex(ACTIVITY_NAMES, ValueCounts(activity)))

process_activity(series) ==
    IF \E i \in DOMAIN series : series[i].t # "str"
    THEN Raise("TypeError")
    ELSE LET activity == [i \in DOMAIN series |-> ActivityBucket(series[i])]
             activity2freq == ValueCounts(activity)
         IN  IF \E name \in DOMAIN activity2freq : ACTIVITY2IDX(name) = 0
             THEN Raise("KeyError")
             ELSE Ok(FillByIndex(ACTIVITY_NAMES, activity2freq))

\* the comparison made case-insensitive: x.lower() == 'q'
TextChangeBucketAnyCase(x) ==
    IF x.t = "str" /\ Lower(x.v) = <<"q">>
    THEN TEXT_CHANGE_NAMES[1] ELSE TEXT_CHANGE_NAMES[2]

\* lambda x: 'alphanum' if x == 'q' else 'other'
TextChangeBucket(x) ==
    IF x = Str(<<"q">>) THEN TEXT_CHANGE_NAMES[1] ELSE TEXT_CHANGE_NAMES[2]

process_text_change(series) ==
    LET text_change == [i \in DOMAIN series |-> TextChangeBucket(series[i])]
        text_change2freq == ValueCounts(text_change)
    IN  IF \E name \in DOMAIN text_change2freq : TEXT_CHANGE2IDX(name) = 0
        THEN Raise("KeyError")
        ELSE Ok(FillByIndex(TEXT_CHANGE_NAMES, text_change2freq))

---------------------------------------------------------------------------
\* Series.max(), .mean(), .std() of pandas: missing cells are skipped, the
\* statistic of no value is NaN, and the sample standard deviation (ddof=1)
\* of fewer than two values is NaN.  A statistic is NaN or Val(sqrt, q): the
\* fraction q, or its square root.
Val(sq, q) == [t |-> "val", sqrt |-> sq, q |-> q]

DropNa(series) == SelectSeq(series, LAMBDA x : ~IsNaN(x))

RECURSIVE SeqSum(_)
SeqSum(s) == IF s = <<>> THEN 0 ELSE Head(s).v + SeqSum(Tail(s))

RECURSIVE SeqSumSq(_)
SeqSumSq(s) == IF s = <<>> THEN 0 ELSE Head(s).v * Head(s).v + SeqSumSq(Tail(s))

SeriesMax(series) ==
    LET xs == DropNa(series)
    IN  IF xs = <<>> THEN NaN
        ELSE Val(FALSE, Frac(CHOOSE m \in {xs[i].v : i \in DOMAIN xs} :
                                 \A i \in DOMAIN xs : xs[i].v <= m, 1))

SeriesMean(series) ==
    LET xs == DropNa(series)
    IN  IF xs = <<>> THEN NaN ELSE Val(FALSE, Frac(SeqSum(xs), Len(xs)))

SeriesStd(series) ==
    LET xs == DropNa(series)
        n == Len(xs)
    IN  IF n < 2 THEN NaN
        ELSE Val(TRUE, Frac(n * SeqSumSq(xs) - SeqSum(xs) * SeqSum(xs), n * (n - 1)))

\* math.log(x + 1): NaN for NaN, ValueError for x + 1 <= 0, else the symbolic
\* value Log(sqrt, arg) = log(arg) or log(sqrt(arg) + 1)
Log(sq, q) == [t |-> "log", sqrt |-> sq, q |-> q]

LogPlus1(x) ==
    IF IsNaN(x) THEN Ok(NaN)
    ELSE IF x.sqrt THEN Ok(Log(TRUE, x.q))
    ELSE IF x.q.num + x.q.den <= 0 THEN Raise("ValueError")
    ELSE Ok(Log(FALSE, Frac(x.q.num + x.q.den, x.q.den)))

\* the value of a logarithm is 0 exactly when its argument is 1
LogIsZero(l) ==
    /\ l.t = "log"
    /\ IF l.sqrt THEN l.q.num = 0 ELSE l.q.num = l.q.den

---------------------------------------------------------------------------
\* the tables
REQUIRED == {"id", "action_time", "activity", "text_change"}

Column(rows, c) == [i \in DOMAIN rows |-> rows[i][c]]

IdsOf(rows) == {rows[i]["id"] : i \in DOMAIN rows}

RECURSIVE SortedSeq(_)
SortedSeq(S) ==
    IF S = {} THEN <<>>
    ELSE LET m == CHOOSE x \in S : \A y \in S : x <= y
         IN  <<m>> \o SortedSeq(S \ {m})

\* one key per row instead of one key per distinct id
GroupKeysPerRow(table) == [i \in DOMAIN table.rows |-> table.rows[i]["id"]]

\* df.groupby('id'): the distinct ids in sorted order; the group of an id is
\* the rows carrying it, in table order
GroupKeys(table) == SortedSeq(IdsOf(table.rows))

Group(table, log_id) == SelectSeq(table.rows, LAMBDA r : r["id"] = log_id)

\* the body of the loop of prepare_data for one group: the row tmp, or the
\* first exception raised while building it
GroupRow(table, log_id) ==
    LET group == Group(table, log_id)
    IN  IF "action_time" \notin table.columns THEN Raise("KeyError")
        ELSE LET at == Column(group, "action_time")
                 mx == LogPlus1(SeriesMax(at))
                 mn == LogPlus1(SeriesMean(at))
                 sd == LogPlus1(SeriesStd(at))
             IN  IF IsRaise(mx) THEN mx
                 ELSE IF IsRaise(mn) THEN mn
                 ELSE IF IsRaise(sd) THEN sd
                 ELSE IF "activity" \notin table.columns THEN Raise("KeyError")
                 ELSE LET act == process_activity(Column(group, "activity"))
                      IN  IF IsRaise(act) THEN act
                          ELSE IF "text_change" \notin table.columns THEN Raise("KeyError")
                          ELSE LET tc == process_text_change(Column(group, "text_change"))
                               IN  IF IsRaise(tc) THEN tc
                                   ELSE Ok([id |-> log_id,
                                            action_time |-> <<mx.v, mn.v, sd.v>>,
                                            activity |-> act.v,
                                            text_change |-> tc.v])

\* res.merge(labels, on='id', how='left'): every feature row, in order, once
\* per label row with its id (in label order); once with a missing label when
\* no label row has its id
RECURSIVE Merge(_, _)
Merge(frame, lab) ==
    IF frame = <<>> THEN <<>>
    ELSE LET r == Head(frame)
             m == SelectSeq(lab, LAMBDA l : l.id = r.id)
             out == IF m = <<>>
                    THEN << [row |-> r, score |-> NaN] >>
                    ELSE [i \in DOMAIN m |-> [row |-> r, score |-> m[i].score]]
         IN  out \o Merge(Tail(frame), lab)

\* without labels the frame is returned as it is
Unlabelled(frame) == [i \in DOMAIN frame |-> [row |-> frame[i]]]

---------------------------------------------------------------------------
\* the inputs
Ids == {1, 2}
LabelIds == {1, 2, 3}
Scores == {"a", "b"}

ActionTimes == {NaN, Num(-3), Num(0), Num(4)}

RawActivities ==
    { Str(<<"I","n","p","u","t">>),
      Str(<<"R","e","m","o","v","e","/","C","u","t">>),
      Str(<<"M","o","v","e"," ","T","o">>),
      Str(<<"N","o","n","p","r","o","d","u","c","t","i","o","n">>),
      Str(<<"P","a","s","t","e">>),
      Str(<<"R","e","p","l","a","c","e">>),
      Str(<<"M","O","V","E">>),
      Str(<<"T","y","p","o">>),
      NaN }

RawTextChanges == { Str(<<"q">>), Str(<<"x">>), Str(<<"Q">>), NaN }

DefaultRow(i) ==
    [id |-> i, action_time |-> Num(4),
     activity |-> Str(<<"I","n","p","u","t">>), text_change |-> Str(<<"q">>)]

SeqsUpTo(S, n) == UNION {[1..k -> S] : k \in 0..n}

\* tables in which one column varies and the others hold a valid value
TimingRows == {[DefaultRow(i) EXCEPT !.action_time = a] : i \in Ids, a \in ActionTimes}
ActivityRows ==
    {[DefaultRow(i) EXCEPT !.activity = a] :
        i \in Ids, a \in { Str(<<"I","n","p","u","t">>), Str(<<"M","o","v","e"," ","T","o">>),
                            Str(<<"M","O","V","E">>), Str(<<"T","y","p","o">>) }}
\* one group over all the raw activity values
OneGroupActivityRows == {[DefaultRow(1) EXCEPT !.activity = a] : a \in RawActivities}
TextRows == {[DefaultRow(i) EXCEPT !.text_change = a] : i \in Ids, a \in RawTextChanges}
PlainRows == {DefaultRow(i) : i \in Ids}

\* tables in which valid values of all the columns vary together
MixedRows ==
    {[id |-> i, action_time |-> a, activity |-> b, text_change |-> c] :
        i \in Ids, a \in {Num(4)},
        b \in {Str(<<"I","n","p","u","t">>), Str(<<"M","o","v","e"," ","T","o">>)},
        c \in {Str(<<"q">>), Str(<<"x">>)}}

Restrict(r, cols) == [c \in cols |-> r[c]]

Table(cols, rows) == [columns |-> cols, rows |-> rows]

EventTables ==
    {Table(REQUIRED, rows) : rows \in SeqsUpTo(TimingRows, MaxEvents)
                                  \cup SeqsUpTo(ActivityRows, MaxEvents)
                                  \cup SeqsUpTo(OneGroupActivityRows, MaxEvents)
                                  \cup SeqsUpTo(TextRows, MaxEvents)
                                  \cup SeqsUpTo(MixedRows, MaxEvents)}

\* tables that lack some of the columns
PartialTables ==
    {Table(cols, [i \in DOMAIN rows |-> Restrict(rows[i], cols)]) :
        cols \in SUBSET REQUIRED, rows \in SeqsUpTo(PlainRows, MaxEvents)}

LabelTables == SeqsUpTo([id : LabelIds, score : Scores], MaxLabels)

---------------------------------------------------------------------------
\* the outcome of a call: the returned table, or the exception
Outcome == IF pc = "done" THEN Ok(res) ELSE Raise(err)

Init ==
    /\ \/ /\ df \in EventTables
          /\ labels = None
       \/ /\ df \in PartialTables
          /\ labels = None
       \/ /\ df \in {Table(REQUIRED, rows) : rows \in SeqsUpTo(PlainRows, MaxEvents)}
          /\ labels \in {[t |-> "table", rows |-> l] : l \in LabelTables}
    /\ pc = "start"
    /\ keys = <<>>
    /\ data = <<>>
    /\ res = <<>>
    /\ err = "none"
    /\ runs = 1
    /\ first = None

\* the accumulator kept from the previous call (a list that outlives the call)
CountGroupsKeepData ==
    /\ pc = "start"
    /\ data' = data
    /\ res' = <<>>
    /\ IF "id" \in df.columns
       THEN /\ keys' = GroupKeys(df)
            /\ pc' = "loop"
            /\ err' = "none"
       ELSE /\ keys' = <<>>
            /\ pc' = "failed"
            /\ err' = "KeyError"
    /\ UNCHANGED <<df, labels, runs, first>>

\* lines 77-79: the call starts with fresh locals; data = [],
\* n_groups = df['id'].nunique(), df.groupby('id')
CountGroups ==
    /\ pc = "start"
    /\ data' = <<>>
    /\ res' = <<>>
    /\ IF "id" \in df.columns
       THEN /\ keys' = GroupKeys(df)
            /\ pc' = "loop"
            /\ err' = "none"
       ELSE /\ keys' = <<>>
            /\ pc' = "failed"
            /\ err' = "KeyError"
    /\ UNCHANGED <<df, labels, runs, first>>

\* lines 80-98: one iteration of the loop; an exception leaves prepare_data
ProcessGroup ==
    /\ pc = "loop"
    /\ keys # <<>>
    /\ LET tmp == GroupRow(df, Head(keys))
       IN  IF IsRaise(tmp)
           THEN /\ pc' = "failed"
                /\ err' = tmp.e
                /\ UNCHANGED <<keys, data>>
           ELSE /\ data' = Append(data, tmp.v)
                /\ keys' = Tail(keys)
                /\ UNCHANGED <<pc, err>>
    /\ UNCHANGED <<df, labels, res, runs, first>>

\* lines 99-106: build the frame, merge the labels when given, return
Return ==
    /\ pc = "loop"
    /\ keys = <<>>
    /\ res' = IF labels = None THEN Unlabelled(data) ELSE Merge(data, labels.rows)
    /\ pc' = "done"
    /\ UNCHANGED <<df, labels, keys, data, err, runs, first>>

\* the caller runs prepare_data again on the same tables
CallAgain ==
    /\ pc \in {"done", "failed"}
    /\ runs < MaxRuns
    /\ first' = IF runs = 1 THEN Outcome ELSE first
    /\ runs' = runs + 1
    /\ pc' = "start"
    /\ UNCHANGED <<df, labels, keys, data, res, err>>

Next == CountGroups \/ ProcessGroup \/ Return \/ CallAgain

Spec == Init /\ [][Next]_vars

---------------------------------------------------------------------------
\* helpers of the properties
HasAll == df.columns = REQUIRED
Finished == pc \in {"done", "failed"}
One == Frac(1, 1)
InUnit(f) == f.den > 0 /\ 0 <= f.num /\ f.num <= f.den

\* C1: with labels omitted the returned table has exactly one row per
\* distinct id of the event table and no other row; after k groups the
\* accumulator holds k rows with pairwise distinct ids of the event table.
C1_OneRowPerId ==
    /\ pc = "loop" =>
          /\ Len(data) + Len(keys) = Cardinality(IdsOf(df.rows))
          /\ \A i \in DOMAIN data : data[i].id \in IdsOf(df.rows)
          /\ \A i, j \in DOMAIN data : data[i].id = data[j].id => i = j
    /\ (pc = "done" /\ labels = None) =>
          /\ Len(res) = Cardinality(IdsOf(df.rows))
          /\ \A i \in IdsOf(df.rows) :
                Cardinality({k \in DOMAIN res : res[k].row.id = i}) = 1
          /\ \A k \in DOMAIN res : res[k].row.id \in IdsOf(df.rows)

C1_Witness ==
    /\ pc = "done"
    /\ labels = None
    /\ Len(df.rows) = 3
    /\ Cardinality(IdsOf(df.rows)) = 2
    /\ Len(res) = 2

\* C2: in every row built by prepare_data the 6 activity entries are each in
\* [0,1] and sum to 1, and the 2 text_change entries are each in [0,1] and
\* sum to 1.
C2_FrequenciesSumToOne ==
    /\ \A i \in DOMAIN data :
          /\ \A k \in DOMAIN data[i].activity : InUnit(data[i].activity[k])
          /\ FracEq(FracSum(data[i].activity), One)
          /\ \A k \in DOMAIN data[i].text_change : InUnit(data[i].text_change[k])
          /\ FracEq(FracSum(data[i].text_change), One)
    /\ \A i \in DOMAIN res :
          /\ FracEq(FracSum(res[i].row.activity), One)
          /\ FracEq(FracSum(res[i].row.text_change), One)

C2_Witness ==
    /\ pc = "done"
    /\ \E i \in DOMAIN res :
          /\ Cardinality({k \in 1..6 : res[i].row.activity[k].num > 0}) = 2
          /\ Cardinality({k \in 1..2 : res[i].row.text_change[k].num > 0}) = 2

\* C3: with a label table the join neither drops nor duplicates feature
\* rows: the returned table has exactly one row per distinct event id,
\* whatever the label table holds.
C3_JoinKeepsFeatureRows ==
    (pc = "done" /\ labels # None) =>
        /\ Len(res) = Cardinality(IdsOf(df.rows))
        /\ \A i \in IdsOf(df.rows) :
              Cardinality({k \in DOMAIN res : res[k].row.id = i}) = 1

\* an activity cell that is a string, does not contain "Move" and does not
\* lower-case to one of the given vocabulary names
Unrecognized(x, names) ==
    /\ x.t = "str"
    /\ ~Contains(x.v, <<"M","o","v","e">>)
    /\ \A k \in DOMAIN names : Lower(x.v) # names[k]

HasUnrecognized(names) ==
    /\ HasAll
    /\ \E i \in DOMAIN df.rows : Unrecognized(df.rows[i]["activity"], names)

C5_BadActionTimeFails ==
    (/\ HasAll
     /\ \E i \in DOMAIN df.rows :
           LET a == df.rows[i]["action_time"]
           IN  IsNaN(a) \/ (a.t = "num" /\ a.v < 0))
        => pc # "done"

\* C6: the row of a group of exactly one event with a valid action_time has
\* action_time_std_log = log(0 + 1) = 0.
C6_SingleEventStdLogZero ==
    pc = "done" =>
        \A k \in DOMAIN res :
            LET group == Group(df, res[k].row.id)
            IN  (/\ Len(group) = 1
                 /\ group[1]["action_time"].t = "num"
                 /\ group[1]["action_time"].v >= 0)
                    => LogIsZero(res[k].row.action_time[3])

\* the position in the vocabulary of the bucket of a raw activity value
BucketIndex(x) ==
    IF Contains(x.v, <<"M","o","v","e">>) THEN 6
    ELSE LET low == Lower(x.v) IN CHOOSE k \in 1..6 : ACTIVITY_NAMES[k] = low

\* C7: for a group whose activity values are all recognized the activity
\* part of its row has exactly 6 entries in the order nonproduction, input,
\* remove/cut, paste, replace, move; entry k is the number of values whose
\* bucket is name k divided by the group size, where the bucket is move for
\* a value containing "Move" and the lower-cased value otherwise; and a
\* group of valid events whose activities are all recognized gets its row.
C7_ActivityFrequencies ==
    /\ \A i \in DOMAIN data :
          LET col == Column(Group(df, data[i].id), "activity")
              idx == [j \in DOMAIN col |-> BucketIndex(col[j])]
          IN  /\ Len(data[i].activity) = 6
              /\ \A k \in 1..6 :
                    FracEq(data[i].activity[k],
                           Frac(Cardinality({j \in DOMAIN col : idx[j] = k}), Len(col)))
    /\ (pc = "failed" /\ HasAll /\ err \in {"KeyError", "TypeError"}) =>
          \E j \in DOMAIN df.rows :
              /\ df.rows[j]["id"] = Head(keys)
              /\ \/ df.rows[j]["activity"].t # "str"
                 \/ Unrecognized(df.rows[j]["activity"], ACTIVITY_NAMES)

C7_Witness ==
    \E i \in DOMAIN data :
        /\ Column(Group(df, data[i].id), "activity")
              = << Str(<<"I","n","p","u","t">>),
                   Str(<<"R","e","m","o","v","e","/","C","u","t">>),
                   Str(<<"M","o","v","e"," ","T","o">>) >>
        /\ data[i].activity
              = << Frac(0, 1), Frac(1, 3), Frac(1, 3), Frac(0, 1), Frac(0, 1), Frac(1, 3) >>

\* C8: process_text_change never fails: for every group the result is
\* [count('q') / total, (total - count('q')) / total], every cell other than
\* the literal 'q' counting as other; the row of the group carries it.
TextExpected(col) ==
    LET q == Cardinality({j \in DOMAIN col : col[j] = Str(<<"q">>)})
    IN  << Frac(q, Len(col)), Frac(Len(col) - q, Len(col)) >>

C8_TextChangeFrequencies ==
    /\ ("id" \in df.columns /\ "text_change" \in df.columns) =>
          \A i \in IdsOf(df.rows) :
              LET col == Column(Group(df, i), "text_change")
                  r == process_text_change(col)
              IN  /\ ~IsRaise(r)
                  /\ Len(r.v) = 2
                  /\ \A k \in 1..2 : FracEq(r.v[k], TextExpected(col)[k])
    /\ \A i \in DOMAIN data :
          LET col == Column(Group(df, data[i].id), "text_change")
          IN  /\ Len(data[i].text_change) = 2
              /\ \A k \in 1..2 : FracEq(data[i].text_change[k], TextExpected(col)[k])

C8_Witness ==
    \E i \in DOMAIN data :
        /\ Column(Group(df, data[i].id), "text_change")
              = << Str(<<"q">>), Str(<<"q">>), Str(<<"x">>) >>
        /\ data[i].text_change = << Frac(2, 3), Frac(1, 3) >>

\* C9: an event table lacking a required column never gets a table back.
C9_MissingColumnFails ==
    ~HasAll => pc # "done"

====
